---- MODULE Spec2Model ----
(***************************************************************************)
(* The waypoint_updater node of ros/src/waypoint_updater: the route store  *)
(* (base_waypoints, total_waypoints), the pose handler pose_cb that        *)
(* publishes a look-ahead window on final_waypoints, the route handler     *)
(* waypoints_cb and the stub handler traffic_cb.                           *)
(*                                                                         *)
(* Numbers.  Positions are integers.  A quaternion component               *)
(* orientation.w is written in units of 1/10000 (10000 is w = 1.0, 7071 is *)
(* w = cos(pi/4), 0 is w = 0.0).  Angles are counted in quarter turns      *)
(* (pi/2).  A floating-point value the code computes from these inputs is  *)
(* written [main |-> m, eps |-> e]: the integer m plus a rounding residue  *)
(* of sign e and magnitude about 1e-16 (cos(pi/2) = 6.1e-17 and            *)
(* sin(-pi) = -1.2e-16 in IEEE double arithmetic, not 0).                  *)
(*                                                                         *)
(* Indices are the 0-based indices of the Python code; a TLA+ sequence is  *)
(* read at index + 1.                                                      *)
(***************************************************************************)
EXTENDS Integers, Sequences, FiniteSets

\* ------------------------------------------------------------------ bounds

\* Longest freely chosen part of a route message.
MaxLen == 2

\* Number of /base_waypoints messages delivered in an interleaved run.
MaxLoads == 2

\* Images of a label file, boxes of an image, and read_all_bosch_labels calls
\* of a run.
MaxImages == 2

MaxBoxes == 2

MaxReads == 2

\* ------------------------------------------------------- program constants

LOOKAHEAD_WPS == 50

\* ------------------------------------------------------------------ inputs

\* orientation.w values of the messages: headings 0, 90 and 180 degrees.
PoseWs == {10000, 7071, 0}
WaypointWs == {10000, 0}

\* twist.twist.linear.x of a route waypoint (its reference speed).
Speeds == {10}

Waypoints == [x : {1, 2}, y : {0}, w : WaypointWs, v : Speeds]

\* /current_pose messages.
Poses == [x : {0, 1}, y : {-1, 0}, w : PoseWs]

\* A straight continuation of LOOKAHEAD_WPS waypoints heading along +x, which
\* makes a route longer than the look-ahead.
Straight == [t \in 1..LOOKAHEAD_WPS |-> [x |-> 2 + t, y |-> 0, w |-> 10000, v |-> 10]]

RECURSIVE SeqsUpTo(_)
SeqsUpTo(n) ==
    IF n = 0 THEN {<<>>}
    ELSE LET shorter == SeqsUpTo(n - 1)
         IN shorter \cup {Append(s, wp) : s \in {q \in shorter : Len(q) = n - 1},
                                           wp \in Waypoints}

\* /base_waypoints messages (Lane.waypoints): short routes, and the same
\* routes continued by the straight stretch.
Routes == {head \o tail : head \in SeqsUpTo(MaxLen), tail \in {<<>>, Straight}}

\* /traffic_waypoint messages: a route index to stop at, -1 for none.
StopIndices == -1 .. MaxLen - 1

\* ----------------------------------------------------------- convert_local

\* 2*math.acos(w), in quarter turns.
Acos2(w) ==
    CASE w = 10000 -> 0
      [] w = 7071 -> 1
      [] w = 0 -> 2
      [] w = -7071 -> 3
      [] w = -10000 -> 4

\* math.cos and math.sin of q quarter turns, q in -4..4, as the double
\* arithmetic returns them.
Cos(q) ==
    CASE q \in {-4, 0, 4} -> [main |-> 1, eps |-> 0]
      [] q \in {-1, 1} -> [main |-> 0, eps |-> 1]
      [] q \in {-2, 2} -> [main |-> -1, eps |-> 0]
      [] q \in {-3, 3} -> [main |-> 0, eps |-> -1]

Sin(q) ==
    CASE q = 0 -> [main |-> 0, eps |-> 0]
      [] q \in {1, -3} -> [main |-> 1, eps |-> 0]
      [] q \in {-1, 3} -> [main |-> -1, eps |-> 0]
      [] q = 2 -> [main |-> 0, eps |-> 1]
      [] q = -2 -> [main |-> 0, eps |-> -1]
      [] q = 4 -> [main |-> 0, eps |-> -1]
      [] q = -4 -> [main |-> 0, eps |-> 1]

\* a*c - b*s and a*s + b*c for integers a, b and trigonometric values c, s.
Minus(a, c, b, s) ==
    [main |-> a * c.main - b * s.main, eps |-> a * c.eps - b * s.eps]

Plus(a, s, b, c) ==
    [main |-> a * s.main + b * c.main, eps |-> a * s.eps + b * c.eps]

\* f > 0.00
Positive(f) == f.main > 0 \/ (f.main = 0 /\ f.eps > 0)

convert_local(waypoint, current_pos) ==
    LET x_shift == waypoint.x - current_pos.x
        y_shift == waypoint.y - current_pos.y
        theta_car == Acos2(current_pos.w)
        theta_waypoint == Acos2(waypoint.w)
    IN [x |-> Minus(x_shift, Cos(0 - theta_car), y_shift, Sin(0 - theta_car)),
        y |-> Plus(x_shift, Sin(0 - theta_car), y_shift, Cos(0 - theta_car)),
        theta_car |-> theta_car,
        theta_waypoint |-> theta_waypoint]

\* orientation_match > 0.707
Above0707(f) == f.main * 1000 > 707

\* Line 90 without its heading test.
QualifiesNoHeading(waypoint, current_pos) ==
    Positive(convert_local(waypoint, current_pos).x)

\* The test of line 90 on one waypoint.
Qualifies(waypoint, current_pos) ==
    LET l == convert_local(waypoint, current_pos)
        orientation_match == Cos(l.theta_waypoint - l.theta_car)
    IN Positive(l.x) /\ Above0707(orientation_match)

\* ------------------------------------------------------------------- state

VARIABLES
    base_waypoints,    \* self.base_waypoints: [] until a Lane message is stored
    total_waypoints,   \* self.total_waypoints
    traffic_waypoint,  \* latest message on /traffic_waypoint (the stop command in force)
    last,              \* the handler invocation that returned last: the handler,
                       \* its message, what it published on final_waypoints, the
                       \* exception it raised, the index the scan stopped at, and
                       \* whether it repeats the invocation before it
    frame,             \* the local variables of the pose_cb invocation in progress
                       \* and the line it stands at
    wp_pc,             \* the line the waypoints_cb invocation in progress stands at
    loads              \* number of /base_waypoints messages delivered to the
                       \* callback threads

\* The state of tl_model/DatasetHandler.py, a separate script.
VARIABLES
    bosch_label_statistics,  \* DatasetHandler.bosch_label_statistics: the one dict
                             \* object of the class, which no instance rebinds
    handlers,                \* the attributes of each DatasetHandler instance
    calls                    \* read_all_bosch_labels calls made, and whether one raised

node == <<base_waypoints, total_waypoints, traffic_waypoint, last, frame, wp_pc, loads>>

dataset == <<bosch_label_statistics, handlers, calls>>

vars == <<base_waypoints, total_waypoints, traffic_waypoint, last, frame, wp_pc, loads,
          bosch_label_statistics, handlers, calls>>

threads == <<frame, wp_pc, loads>>

\* self.base_waypoints = []: a list, which has no attribute 'waypoints'.
EmptyList == [is_lane |-> FALSE, waypoints |-> <<>>]

Lane(waypoints) == [is_lane |-> TRUE, waypoints |-> waypoints]

NoPose == [x |-> 0, y |-> 0, w |-> 10000]

Returned(cb, msg, r) ==
    [cb |-> cb, msg |-> msg, published |-> r.published, raised |-> r.raised, i |-> r.i,
     repeat |-> cb = "pose_cb" /\ last.cb = "pose_cb" /\ last.msg = msg]

Nothing == [published |-> <<>>, raised |-> "none", i |-> -1]

IdleFrame ==
    [pc |-> "idle", current_pos |-> NoPose, n |-> 0, i |-> 0, j |-> 0, j_mod |-> 0,
     final_waypoints_list |-> <<>>]

\* ----------------------------------------------------------------- pose_cb

\* Line 93: i+j%self.total_waypoints, where % binds tighter than +.
j_mod(i, j, total) == i + (j % total)

\* Lines 97-101 indented into the inner loop: the publish and the return
\* follow the first append.
LookaheadPublishInLoop(waypoints, total, i, j, final_waypoints_list) ==
    IF total = 0
    THEN [published |-> <<>>, raised |-> "ZeroDivisionError", i |-> i]
    ELSE IF j_mod(i, j, total) >= Len(waypoints)
    THEN [published |-> <<>>, raised |-> "IndexError", i |-> i]
    ELSE [published |->
              <<Append(final_waypoints_list, waypoints[j_mod(i, j, total) + 1])>>,
          raised |-> "none", i |-> i]

\* Lines 92-101: the inner loop from j with the list built so far, then the
\* publish and the return.  The loop stops at the first j whose line 93 or 94
\* raises; otherwise every j of the range appends one waypoint.
Lookahead(waypoints, total, i, j, final_waypoints_list) ==
    LET raising == {jj \in j .. LOOKAHEAD_WPS - 1 :
                       total = 0 \/ j_mod(i, jj, total) >= Len(waypoints)}
    IN IF raising # {}
       THEN [published |-> <<>>,
             raised |-> IF total = 0 THEN "ZeroDivisionError" ELSE "IndexError",
             i |-> i]
       ELSE [published |->
                 <<final_waypoints_list \o
                       [k \in 1 .. LOOKAHEAD_WPS - j |->
                           waypoints[j_mod(i, j + k - 1, total) + 1]]>>,
             raised |-> "none", i |-> i]

\* Lines 97-99 after the loop instead of inside it: the list, still empty, is
\* published.
FallThroughPublishes == [published |-> << <<>> >>, raised |-> "none", i |-> -1]

\* Lines 102-110: the loop ended without a match.
FallThrough == Nothing

\* The list kept from one invocation to the next, as an attribute of self
\* initialised in __init__ would be.
StaleList == IF last.published = <<>> THEN <<>> ELSE last.published[1]

\* Line 82.
NewList == <<>>

\* Lines 83-101: the scan from index i, which stops at the first index whose
\* waypoint passes the test of line 90.
Scan(waypoints, total, current_pos, i) ==
    LET passing == {k \in i .. Len(waypoints) - 1 : Qualifies(waypoints[k + 1], current_pos)}
    IN IF passing = {}
       THEN FallThrough
       ELSE Lookahead(waypoints, total, CHOOSE k \in passing : \A m \in passing : k <= m,
                      0, NewList)

\* What one run of pose_cb publishes or raises.
PoseCbRun(bw, total, msg) ==
    IF ~bw.is_lane
    THEN [published |-> <<>>, raised |-> "AttributeError", i |-> -1]
    ELSE Scan(bw.waypoints, total, msg, 0)

\* pose_cb publishing the stored Lane object itself, after setting its
\* waypoints to the window.
pose_cb_reusing_lane(msg) ==
    LET r == PoseCbRun(base_waypoints, total_waypoints, msg)
    IN /\ last' = Returned("pose_cb", msg, r)
       /\ base_waypoints' =
              IF r.published = <<>> THEN base_waypoints ELSE Lane(r.published[1])
       /\ UNCHANGED <<dataset, total_waypoints, traffic_waypoint, threads>>

pose_cb(msg) ==
    /\ last' = Returned("pose_cb", msg, PoseCbRun(base_waypoints, total_waypoints, msg))
    /\ UNCHANGED <<dataset, base_waypoints, total_waypoints, traffic_waypoint, threads>>

\* ------------------------------------------------------------ waypoints_cb

waypoints_cb(waypoints) ==
    /\ base_waypoints' = Lane(waypoints)
    /\ total_waypoints' = Len(waypoints)
    /\ last' = Returned("waypoints_cb", NoPose, Nothing)
    /\ UNCHANGED <<dataset, traffic_waypoint, threads>>

\* -------------------------------------------------------------- traffic_cb

\* The handler body is `pass`: the node keeps nothing of the message.
traffic_cb(msg) ==
    /\ traffic_waypoint' = msg
    /\ last' = Returned("traffic_cb", NoPose, Nothing)
    /\ UNCHANGED <<dataset, base_waypoints, total_waypoints, threads>>

\* ---------------------------------------------------------- DatasetHandler

\* Labels of the boxes of a label file.
Labels == {"Red", "Green"}

Boxes == [label : Labels, y_min : {100}, y_max : {120}]

RECURSIVE BoxSeqsUpTo(_)
BoxSeqsUpTo(n) ==
    IF n = 0 THEN {<<>>}
    ELSE LET shorter == BoxSeqsUpTo(n - 1)
         IN shorter \cup {Append(s, b) : s \in {q \in shorter : Len(q) = n - 1},
                                          b \in Boxes}

Images == [path : {"rgb/train/1.png"}, boxes : BoxSeqsUpTo(MaxBoxes)]

RECURSIVE ImageSeqsUpTo(_)
ImageSeqsUpTo(n) ==
    IF n = 0 THEN {<<>>}
    ELSE LET shorter == ImageSeqsUpTo(n - 1)
         IN shorter \cup {Append(s, im) : s \in {q \in shorter : Len(q) = n - 1},
                                           im \in Images}

\* What yaml.load returns for the label files that exist.
LabelFiles == ImageSeqsUpTo(MaxImages)

Handlers == {"h1", "h2"}

\* Lines 32-37: the class attributes an instance starts from.
ClassAttributes ==
    [bosch_label_dict_valid |-> FALSE,
     bosch_label_dict |-> <<>>,
     bosch_number_images |-> 0,
     bosch_number_labeled_traffic_lights |-> 0,
     bosch_image_shape |-> <<0, 0, 0>>]

InitDataset ==
    /\ bosch_label_statistics = [l \in {} |-> 0]
    /\ handlers = [h \in Handlers |-> ClassAttributes]
    /\ calls = [made |-> 0, raised |-> FALSE]

\* Lines 66-68 on one path.
RiibPath(path) == IF path = "rgb/train/1.png" THEN "riib/train/1.pgm" ELSE path

\* Lines 63-72: images[i] with its path and, for riib, its boxes rewritten.
Rewritten(image, riib) ==
    IF riib
    THEN [path |-> RiibPath(image.path),
          boxes |-> [k \in 1 .. Len(image.boxes) |->
                        [image.boxes[k] EXCEPT !.y_max = @ + 8, !.y_min = @ + 8]]]
    ELSE image

\* Lines 77-81 from box k of one image.
RECURSIVE CountLabels(_, _, _)
CountLabels(statistics, boxes, k) ==
    IF k > Len(boxes)
    THEN statistics
    ELSE LET label == boxes[k].label
         IN CountLabels(
                IF label \notin DOMAIN statistics
                THEN [l \in DOMAIN statistics \cup {label} |->
                         IF l = label THEN 1 ELSE statistics[l]]
                ELSE [statistics EXCEPT ![label] = statistics[label] + 1],
                boxes, k + 1)

\* Lines 62-81 from image i (0-based): the images rewritten, the counter and
\* the statistics, each continued from the value it had before the call.
RECURSIVE ReadLoop(_, _, _)
ReadLoop(acc, riib, i) ==
    IF i = Len(acc.images)
    THEN acc
    ELSE LET image == Rewritten(acc.images[i + 1], riib)
         IN ReadLoop(
                [images |-> [acc.images EXCEPT ![i + 1] = image],
                 number |-> acc.number + Len(image.boxes),
                 statistics |-> CountLabels(acc.statistics, image.boxes, 1)],
                riib, i + 1)

\* Lines 86-87: image.shape of the first image of the dataset.
ImageShape(path) ==
    IF path = "riib/train/1.pgm" THEN <<736, 1280>> ELSE <<720, 1280, 3>>

\* Lines 56-57: the label file does not exist.
read_all_bosch_labels_missing(h) ==
    /\ calls.made < MaxReads
    /\ calls' = [calls EXCEPT !.made = @ + 1]
    /\ UNCHANGED <<node, bosch_label_statistics, handlers>>

\* Lines 59-90.  On an empty label file line 86 raises IndexError, after the
\* assignments of lines 60 and 83.
read_all_bosch_labels(h, images, riib) ==
    LET self == handlers[h]
        done == ReadLoop([images |-> images,
                          number |-> self.bosch_number_labeled_traffic_lights,
                          statistics |-> bosch_label_statistics], riib, 0)
        stored == [self EXCEPT
                      !.bosch_number_images = Len(images),
                      !.bosch_number_labeled_traffic_lights = done.number,
                      !.bosch_label_dict = done.images]
    IN /\ calls.made < MaxReads
       /\ bosch_label_statistics' = done.statistics
       /\ IF Len(images) = 0
          THEN /\ handlers' = [handlers EXCEPT ![h] = stored]
               /\ calls' = [made |-> calls.made + 1, raised |-> TRUE]
          ELSE /\ handlers' =
                      [handlers EXCEPT
                          ![h] = [stored EXCEPT
                                     !.bosch_image_shape = ImageShape(done.images[1].path),
                                     !.bosch_label_dict_valid = TRUE]]
               /\ calls' = [calls EXCEPT !.made = @ + 1]
       /\ UNCHANGED node

NextDataset ==
    \/ \E h \in Handlers : read_all_bosch_labels_missing(h)
    \/ \E h \in Handlers, images \in LabelFiles, riib \in BOOLEAN :
           read_all_bosch_labels(h, images, riib)

\* ----------------------------------------------------------- specification

Init ==
    /\ base_waypoints = EmptyList
    /\ total_waypoints = 0
    /\ traffic_waypoint = -1
    /\ last = [cb |-> "__init__", msg |-> NoPose, published |-> <<>>, raised |-> "none",
               i |-> -1, repeat |-> FALSE]
    /\ frame = IdleFrame
    /\ wp_pc = "idle"
    /\ loads = 0
    /\ InitDataset

Next ==
    \/ \E msg \in Poses : pose_cb(msg)
    \/ \E waypoints \in Routes : waypoints_cb(waypoints)
    \/ \E msg \in StopIndices : traffic_cb(msg)

Spec == Init /\ [][Next]_vars

\* ------------------------------------------------- the handlers as threads
\* rospy runs the callbacks of /current_pose and of /base_waypoints on one
\* thread per topic, so pose_cb and waypoints_cb interleave.  Each step below
\* holds at most one read or write of an attribute of self.

\* Route and pose messages of the interleaved runs.
ThreadRoutes == {r \in SeqsUpTo(MaxLen) : \A k \in 1..Len(r) : r[k].w = 10000}

ThreadPoses == {p \in Poses : p.y = 0 /\ p.w # 7071}

PoseReturn(r) ==
    /\ last' = Returned("pose_cb", frame.current_pos, r)
    /\ frame' = IdleFrame

\* Lines 64-82.
pose_cb_82(msg) ==
    /\ frame.pc = "idle"
    /\ frame' = [IdleFrame EXCEPT !.pc = "l83", !.current_pos = msg,
                                  !.final_waypoints_list = NewList]
    /\ UNCHANGED <<dataset, base_waypoints, total_waypoints, traffic_waypoint, last, wp_pc, loads>>

\* Line 83: range(len(self.base_waypoints.waypoints)).
pose_cb_83 ==
    /\ frame.pc = "l83"
    /\ IF ~base_waypoints.is_lane
       THEN PoseReturn([published |-> <<>>, raised |-> "AttributeError", i |-> -1])
       ELSE /\ frame' = [frame EXCEPT !.pc = "l84", !.n = Len(base_waypoints.waypoints),
                                      !.i = 0]
            /\ UNCHANGED last
    /\ UNCHANGED <<dataset, base_waypoints, total_waypoints, traffic_waypoint, wp_pc, loads>>

\* Lines 83-90 for one i: the end of the range, the read of
\* self.base_waypoints.waypoints[i] and the test.
pose_cb_84 ==
    /\ frame.pc = "l84"
    /\ IF frame.i = frame.n
       THEN PoseReturn(FallThrough)
       ELSE IF frame.i >= Len(base_waypoints.waypoints)
       THEN PoseReturn([published |-> <<>>, raised |-> "IndexError", i |-> frame.i])
       ELSE /\ frame' = IF Qualifies(base_waypoints.waypoints[frame.i + 1], frame.current_pos)
                        THEN [frame EXCEPT !.pc = "l93", !.j = 0]
                        ELSE [frame EXCEPT !.i = frame.i + 1]
            /\ UNCHANGED last
    /\ UNCHANGED <<dataset, base_waypoints, total_waypoints, traffic_waypoint, wp_pc, loads>>

\* Lines 92-93 for one j, and lines 97-101 at the end of the range.
pose_cb_93 ==
    /\ frame.pc = "l93"
    /\ IF frame.j = LOOKAHEAD_WPS
       THEN PoseReturn([published |-> <<frame.final_waypoints_list>>, raised |-> "none",
                        i |-> frame.i])
       ELSE IF total_waypoints = 0
       THEN PoseReturn([published |-> <<>>, raised |-> "ZeroDivisionError", i |-> frame.i])
       ELSE /\ frame' = [frame EXCEPT !.pc = "l94",
                                      !.j_mod = j_mod(frame.i, frame.j, total_waypoints)]
            /\ UNCHANGED last
    /\ UNCHANGED <<dataset, base_waypoints, total_waypoints, traffic_waypoint, wp_pc, loads>>

\* Line 94.
pose_cb_94 ==
    /\ frame.pc = "l94"
    /\ IF frame.j_mod >= Len(base_waypoints.waypoints)
       THEN PoseReturn([published |-> <<>>, raised |-> "IndexError", i |-> frame.i])
       ELSE /\ frame' = [frame EXCEPT
                            !.pc = "l93", !.j = frame.j + 1,
                            !.final_waypoints_list =
                                Append(frame.final_waypoints_list,
                                       base_waypoints.waypoints[frame.j_mod + 1])]
            /\ UNCHANGED last
    /\ UNCHANGED <<dataset, base_waypoints, total_waypoints, traffic_waypoint, wp_pc, loads>>

\* Line 123.
waypoints_cb_123(waypoints) ==
    /\ wp_pc = "idle"
    /\ loads < MaxLoads
    /\ base_waypoints' = Lane(waypoints)
    /\ wp_pc' = "l124"
    /\ loads' = loads + 1
    /\ UNCHANGED <<dataset, total_waypoints, traffic_waypoint, last, frame>>

\* Line 124.
waypoints_cb_124 ==
    /\ wp_pc = "l124"
    /\ total_waypoints' = Len(base_waypoints.waypoints)
    /\ wp_pc' = "idle"
    /\ last' = Returned("waypoints_cb", NoPose, Nothing)
    /\ UNCHANGED <<dataset, base_waypoints, traffic_waypoint, frame, loads>>

NextThreads ==
    \/ \E msg \in ThreadPoses : pose_cb_82(msg)
    \/ pose_cb_83
    \/ pose_cb_84
    \/ pose_cb_93
    \/ pose_cb_94
    \/ \E waypoints \in ThreadRoutes : waypoints_cb_123(waypoints)
    \/ waypoints_cb_124

SpecThreads == Init /\ [][NextThreads]_vars

\* The dataset script alone.
SpecDataset == Init /\ [][NextDataset]_vars

\* ------------------------------------------------------------------ claims
\* The claims about one handler at a time are stated on Spec, on the state a
\* pose_cb invocation leaves: last is that invocation, and base_waypoints and
\* total_waypoints are the route it ran on.

Route == base_waypoints.waypoints

AfterPose == last.cb = "pose_cb"

Published == AfterPose /\ last.published # <<>>

\* The look-ahead test in the words of the claims: a positive forward
\* coordinate in the vehicle frame and a heading-alignment cosine above 0.707.
Ahead(waypoint, pose) ==
    /\ Positive(convert_local(waypoint, pose).x)
    /\ Above0707(Cos(Acos2(waypoint.w) - Acos2(pose.w)))

AheadIndices == {k \in 0 .. Len(Route) - 1 : Ahead(Route[k + 1], last.msg)}

\* Squared distance of a waypoint to the vehicle position.
Dist2(waypoint, pose) ==
    (waypoint.x - pose.x) * (waypoint.x - pose.x)
        + (waypoint.y - pose.y) * (waypoint.y - pose.y)

\* C1: a pose update handled while no route is loaded is a no-op: nothing is
\* published and no error escapes the handler.
C1_PoseBeforeLoadIsNoOp ==
    (AfterPose /\ ~base_waypoints.is_lane)
        => (last.published = <<>> /\ last.raised = "none")

\* C2: the first waypoint of a published window is the closest one among the
\* route waypoints that lie ahead of the vehicle.
C2_WindowStartsAtClosestAhead ==
    Published =>
        \A k \in AheadIndices :
            Dist2(last.published[1][1], last.msg) <= Dist2(Route[k + 1], last.msg)

\* C3: once the pose handler has chosen a start index i on a route of length
\* L, it publishes the window whose entry j is the route waypoint at index
\* (i + j) mod L for every j below the look-ahead, and does not fail.
C3_WindowWrapsModuloLength ==
    (AfterPose /\ base_waypoints.is_lane /\ last.i >= 0) =>
        /\ last.raised = "none"
        /\ last.published =
               << [jj \in 1 .. LOOKAHEAD_WPS |->
                      Route[((last.i + jj - 1) % Len(Route)) + 1]] >>

\* C4: every window the pose handler publishes has exactly LOOKAHEAD_WPS
\* entries.
C4_WindowHasLookaheadEntries ==
    AfterPose =>
        \A m \in 1 .. Len(last.published) : Len(last.published[m]) = LOOKAHEAD_WPS

C4_Witness == Published /\ last.i > 0 /\ Len(last.published[1]) = LOOKAHEAD_WPS

\* Route index of entry jj of the window published last.
WindowIndex(jj) == j_mod(last.i, jj - 1, total_waypoints)

\* C5: with a stop command for a route index D inside the published window in
\* force, the speeds of the window are non-increasing up to the entry for D
\* and are 0 at that entry and at every later one.
C5_StopCommandBrakesWindow ==
    (Published /\ traffic_waypoint >= 0) =>
        LET window == last.published[1]
            atD == {jj \in 1 .. Len(window) : WindowIndex(jj) = traffic_waypoint}
        IN \A jD \in atD :
               (\A jj \in atD : jD <= jj) =>
                   /\ \A jj \in 1 .. jD - 1 : window[jj].v >= window[jj + 1].v
                   /\ \A jj \in jD .. Len(window) : window[jj].v = 0

\* C6: on a loaded route none of whose waypoints qualifies as ahead of the
\* pose, the pose handler publishes nothing (no partial window) and raises
\* nothing.
C6_NoForwardWaypointSkipsPublish ==
    (AfterPose /\ base_waypoints.is_lane /\ AheadIndices = {})
        => (last.published = <<>> /\ last.raised = "none")

C6_Witness ==
    AfterPose /\ base_waypoints.is_lane /\ Len(Route) > 1 /\ AheadIndices = {}
        /\ last.published = <<>>

\* C7: at every point where pose_cb reads the stored route, total_waypoints
\* is the length of base_waypoints.waypoints, under every interleaving of
\* waypoints_cb with pose_cb.
C7_RouteLoadIsAtomic ==
    frame.pc \in {"l83", "l84", "l93", "l94"}
        => total_waypoints = Len(base_waypoints.waypoints)

\* C8: a pose update that repeats the one handled just before it, with no
\* route load or stop command in between, publishes the same window (same
\* length, order and content) and ends the same way.
C8_RepeatedPoseSameWindow ==
    [][(last'.cb = "pose_cb" /\ last'.repeat)
           => (last'.published = last.published /\ last'.raised = last.raised)]_vars

C8_Witness == AfterPose /\ last.repeat /\ last.published # <<>>

\* C9: a published window starts at the lowest route index whose waypoint is
\* ahead (positive forward coordinate, alignment cosine above 0.707), and a
\* pose update publishes at most one window.
C9_WindowStartsAtFirstAhead ==
    AfterPose =>
        /\ Len(last.published) <= 1
        /\ last.published # <<>> =>
               /\ last.i \in AheadIndices
               /\ \A k \in AheadIndices : last.i <= k
               /\ last.published[1][1] = Route[last.i + 1]

C9_Witness ==
    /\ Published
    /\ last.i > 0
    /\ \E k \in AheadIndices : k > last.i
    /\ \E k \in 0 .. last.i - 1 : Positive(convert_local(Route[k + 1], last.msg).x)

\* C10: handling a pose update leaves base_waypoints and total_waypoints as
\* they were, whether it published, published nothing or failed.
C10_PoseKeepsRoute ==
    [][last'.cb = "pose_cb"
           => (base_waypoints' = base_waypoints /\ total_waypoints' = total_waypoints)]_vars

C10_Witness ==
    AfterPose /\ base_waypoints.is_lane /\ last.raised = "IndexError" /\ last.i > 0

\* Boxes of a stored dataset, and those of them with one label.
RECURSIVE BoxesIn(_, _)
BoxesIn(images, keep) ==
    IF images = <<>>
    THEN 0
    ELSE Cardinality({k \in 1 .. Len(Head(images).boxes) : Head(images).boxes[k].label \in keep})
             + BoxesIn(Tail(images), keep)

StatisticsOf(label) ==
    IF label \in DOMAIN bosch_label_statistics THEN bosch_label_statistics[label] ELSE 0

\* C11: after any sequence of successful read_all_bosch_labels calls, each
\* handler that has read a dataset has statistics describing the dataset it
\* holds: bosch_number_images is its number of images,
\* bosch_number_labeled_traffic_lights its number of boxes, and
\* bosch_label_statistics[label] its number of boxes with that label.
C11_StatisticsDescribeDataset ==
    ~calls.raised =>
        \A h \in Handlers :
            handlers[h].bosch_label_dict_valid =>
                LET self == handlers[h]
                IN /\ self.bosch_number_images = Len(self.bosch_label_dict)
                   /\ self.bosch_number_labeled_traffic_lights
                          = BoxesIn(self.bosch_label_dict, Labels)
                   /\ \A label \in Labels :
                          StatisticsOf(label) = BoxesIn(self.bosch_label_dict, {label})

====
